---- MODULE Spec2Model ----
(***************************************************************************)
(* Model of the contact endpoint of server.js: the validator               *)
(* validatePayload, the transport resolver getTransporter and the handler  *)
(* of POST /api/contact.                                                   *)
(*                                                                         *)
(* JavaScript values are records [t, s, n]: t is the typeof-like tag, s    *)
(* the characters of a string (a sequence of one-character strings), n the *)
(* number (or 0/1 for a boolean).  The Arabic literals of the source are   *)
(* written as ASCII tokens: an error message is one token, the word of a   *)
(* label of the mail text is one character-like token.                     *)
(***************************************************************************)
EXTENDS Integers, Sequences, FiniteSets

\* ------------------------------------------------------------------ bounds
\* longest run of blanks tried as a field value
MaxBlank == 1
\* number of requests served concurrently in SpecConc
NumReq == 2

\* ------------------------------------------------------------ JS values
Undef == [t |-> "undefined", s |-> <<>>, n |-> 0]
Null == [t |-> "null", s |-> <<>>, n |-> 0]
Num(k) == [t |-> "number", s |-> <<>>, n |-> k]
Bool(b) == [t |-> "boolean", s |-> <<>>, n |-> IF b THEN 1 ELSE 0]
Str(cs) == [t |-> "string", s |-> cs, n |-> 0]
\* an array or object value (always truthy, never a string)
Obj == [t |-> "object", s |-> <<>>, n |-> 0]

\* characters String.prototype.trim removes (those the model uses)
WhiteSpace == {" ", "\n"}

\* JS truthiness, as used by `a && b` and `a || b`
Truthy(v) ==
  CASE v.t = "string" -> Len(v.s) > 0
    [] v.t = "number" -> v.n # 0
    [] v.t = "boolean" -> v.n = 1
    [] v.t = "object" -> TRUE
    [] OTHER -> FALSE

RECURSIVE trimStart(_)
trimStart(cs) ==
  IF cs # <<>> /\ Head(cs) \in WhiteSpace THEN trimStart(Tail(cs)) ELSE cs

RECURSIVE trimEnd(_)
trimEnd(cs) ==
  IF cs # <<>> /\ cs[Len(cs)] \in WhiteSpace
  THEN trimEnd(SubSeq(cs, 1, Len(cs) - 1))
  ELSE cs

\* String.prototype.trim
trim(cs) == trimEnd(trimStart(cs))

\* ------------------------------------------------------------ validation
\* the category set with its last member left out
ALLOWED_TYPES_NoCustom ==
  { <<"l","a","n","d","i","n","g">>,
    <<"w","e","b","s","i","t","e">>,
    <<"e","c","o","m","m","e","r","c","e">>,
    <<"i","n","f","o","-","a","p","p">>,
    <<"b","o","o","k","i","n","g","-","a","p","p">> }

ALLOWED_TYPES ==
  { <<"l","a","n","d","i","n","g">>,
    <<"w","e","b","s","i","t","e">>,
    <<"e","c","o","m","m","e","r","c","e">>,
    <<"i","n","f","o","-","a","p","p">>,
    <<"b","o","o","k","i","n","g","-","a","p","p">> }
  \cup { <<"c","u","s","t","o","m">> }

\* Set.prototype.has: only a string equal to a member is found
AllowedHas(v) == v.t = "string" /\ v.s \in ALLOWED_TYPES

\* reqStr without the trim: a blank string counts as filled in
reqStrNoTrim(v) == v.t = "string" /\ Len(v.s) > 0

\* reqStr of validatePayload
reqStr(v) == v.t = "string" /\ Len(trim(v.s)) > 0

ErrFirstName == "first name is required"
ErrLastName == "last name is required"
ErrEmail == "email is required"
ErrPhone == "phone is required"
ErrMessage == "message text is required"
ErrProjectType == "project type value is invalid"

Push(errors, cond, msg) == IF cond THEN Append(errors, msg) ELSE errors

\* a validator that stops at the first failing rule
validatePayloadFirstOnly(b) ==
  IF ~reqStr(b.firstName) THEN <<ErrFirstName>>
  ELSE IF ~reqStr(b.lastName) THEN <<ErrLastName>>
  ELSE IF ~reqStr(b.email) THEN <<ErrEmail>>
  ELSE IF ~reqStr(b.phone) THEN <<ErrPhone>>
  ELSE IF ~reqStr(b.message) THEN <<ErrMessage>>
  ELSE IF Truthy(b.projectType) /\ ~AllowedHas(b.projectType) THEN <<ErrProjectType>>
  ELSE <<>>

validatePayload(b) ==
  LET e1 == Push(<<>>, ~reqStr(b.firstName), ErrFirstName)
      e2 == Push(e1, ~reqStr(b.lastName), ErrLastName)
      e3 == Push(e2, ~reqStr(b.email), ErrEmail)
      e4 == Push(e3, ~reqStr(b.phone), ErrPhone)
      e5 == Push(e4, ~reqStr(b.message), ErrMessage)
  IN  Push(e5, Truthy(b.projectType) /\ ~AllowedHas(b.projectType), ErrProjectType)

\* ------------------------------------------------------- request bodies
\* req.body after the body parsers: shape "absent" is an undefined req.body
\* (no parser accepted the request), "array" a JSON array (no named fields)
EmptyBody(shape) ==
  [shape |-> shape, firstName |-> Undef, lastName |-> Undef, email |-> Undef,
   phone |-> Undef, projectType |-> Undef, message |-> Undef, company |-> Undef]

\* the honeypot test with its comparison inverted
honeypotInverted(b) == b.company.t = "string" /\ trim(b.company.s) = <<>>

\* the honeypot test of the handler
honeypot(b) == b.company.t = "string" /\ trim(b.company.s) # <<>>

\* const { ..., projectType = "", ... } = req.body || {}, as passed to
\* validatePayload
Destructure(b) ==
  [firstName |-> b.firstName, lastName |-> b.lastName, email |-> b.email,
   phone |-> b.phone,
   projectType |-> IF b.projectType.t = "undefined" THEN Str(<<>>) ELSE b.projectType,
   message |-> b.message]

\* a rejection test that lets a single error through
IsRejectedOffByOne(errs) == Len(errs) > 1

\* a non-empty error list is a validation failure
IsRejected(errs) == Len(errs) > 0

\* --------------------------------------------------------------- replies
MsgAck == "received"
MsgOk == "your message was received successfully"
MsgFail == "sending error"

RespAck == [status |-> 200, ok |-> "true", message |-> MsgAck, errors |-> <<>>, json |-> TRUE]
RespReject(errs) ==
  [status |-> 400, ok |-> "false", message |-> errs[1], errors |-> errs, json |-> TRUE]
RespOk == [status |-> 200, ok |-> "true", message |-> MsgOk, errors |-> <<>>, json |-> TRUE]
RespFail == [status |-> 500, ok |-> "false", message |-> MsgFail, errors |-> <<>>, json |-> TRUE]
\* what the framework's own error handler sends for an exception that
\* escaped the handler: not a JSON reply of this program
FrameworkError ==
  [status |-> 500, ok |-> "absent", message |-> "framework error page",
   errors |-> <<>>, json |-> FALSE]

\* what becomes of an exception thrown outside the handler's try block: the
\* rejected promise is either never handled (no reply is ever sent) or is
\* passed to the framework's error handler, depending on the framework
EscapedThrowReplies == { <<>>, <<FrameworkError>> }

\* ------------------------------------------------------------- mail text
\* the numbers of the model are single digits
DigitChar == <<"0","1","2","3","4","5","6","7","8","9">>

\* ${v} in a template literal
TemplateStr(v) ==
  CASE v.t = "string" -> v.s
    [] v.t = "number" -> <<DigitChar[v.n + 1]>>
    [] v.t = "boolean" -> IF v.n = 1 THEN <<"t","r","u","e">> ELSE <<"f","a","l","s","e">>
    [] v.t = "null" -> <<"n","u","l","l">>
    [] v.t = "undefined" -> <<"u","n","d","e","f","i","n","e","d">>
    [] OTHER -> <<"[","o","b","j","e","c","t","]">>

NL == <<"\n">>
LabelName == <<"NAME", ":", " ">>
LabelEmail == <<"EMAIL", ":", " ">>
LabelPhone == <<"PHONE", ":", " ">>
LabelType == <<"PROJECT-TYPE", ":", " ">>
Dash == <<"-">>
Separator == <<"-", "-", "-">>

\* projectType || "-"
TypeOrDash(f) == IF Truthy(f.projectType) THEN TemplateStr(f.projectType) ELSE Dash

\* the text with the email and phone lines swapped
ComposeTextSwapped(f) ==
  LabelName \o TemplateStr(f.firstName) \o <<" ">> \o TemplateStr(f.lastName) \o NL
  \o LabelPhone \o TemplateStr(f.phone) \o NL
  \o LabelEmail \o TemplateStr(f.email) \o NL
  \o LabelType \o TypeOrDash(f) \o NL
  \o Separator \o NL
  \o TemplateStr(f.message)

\* the template literal `text`
ComposeText(f) ==
  LabelName \o TemplateStr(f.firstName) \o <<" ">> \o TemplateStr(f.lastName) \o NL
  \o LabelEmail \o TemplateStr(f.email) \o NL
  \o LabelPhone \o TemplateStr(f.phone) \o NL
  \o LabelType \o TypeOrDash(f) \o NL
  \o Separator \o NL
  \o TemplateStr(f.message)

\* the argument of transporter.sendMail (subject, html, from and to left out)
ComposeMail(f) == [replyTo |-> f.email, text |-> ComposeText(f)]

NoMail == [replyTo |-> Undef, text |-> <<>>]

\* ------------------------------------------------------ transport choice
\* one transporter variable shared by all requests
TransportSlotShared(r) == 1

\* the transporter variable a request uses: a local of getTransporter and
\* of the handler, one per call
TransportSlot(r) == r

\* getTransporter without the fallback: a verify failure is rethrown
getTransporterNoFallback(verifyOk) ==
  IF verifyOk THEN [threw |-> FALSE, kind |-> "smtp"]
  ELSE [threw |-> TRUE, kind |-> "none"]

\* what getTransporter gives back for a verify outcome
getTransporterResult(verifyOk) ==
  IF verifyOk THEN [threw |-> FALSE, kind |-> "smtp"]
  ELSE [threw |-> FALSE, kind |-> "stream"]

\* sendMail on the stream transport (buffer: true) only serialises the
\* message in memory; only the SMTP transport talks to a mail provider
SendMayFail(kind) == kind = "smtp"

\* a handler that swallows the send failure
AfterSendSwallow(sendOk) == [pc |-> "DISPATCHED", reply |-> RespOk]

\* the reply after sendMail: res.json on success, the catch block on a throw
AfterSend(sendOk) ==
  IF sendOk THEN [pc |-> "DISPATCHED", reply |-> RespOk]
  ELSE [pc |-> "FAILED", reply |-> RespFail]

\* --------------------------------------------------------------- inputs
Blanks == { [i \in 1..k |-> " "] : k \in 0..MaxBlank }

FirstNameOk == <<"S","a">>
LastNameOk == <<"A","l">>
EmailOk == <<"s","@","x">>
PhoneOk == <<"0","5">>
MessageOk == <<"H","\n","i">>

RequiredVals(valid) == {Undef, Num(7), Str(valid)} \cup { Str(b) : b \in Blanks }

\* the category strings a form submits
CategoryInputs ==
  { <<"l","a","n","d","i","n","g">>, <<"w","e","b","s","i","t","e">>,
    <<"e","c","o","m","m","e","r","c","e">>, <<"i","n","f","o","-","a","p","p">>,
    <<"b","o","o","k","i","n","g","-","a","p","p">>, <<"c","u","s","t","o","m">> }

ProjectTypeVals ==
  {Undef, Null, Num(0), Bool(FALSE), Num(5), Obj,
   Str(<<"o","t","h","e","r">>), Str(<<"L","a","n","d","i","n","g">>)}
  \cup { Str(b) : b \in Blanks } \cup { Str(ty) : ty \in CategoryInputs }

CompanyVals == {Undef, Num(1), Str(<<"b","o","t">>)} \cup { Str(b) : b \in Blanks }

ValidBody ==
  [shape |-> "object", firstName |-> Str(FirstNameOk), lastName |-> Str(LastNameOk),
   email |-> Str(EmailOk), phone |-> Str(PhoneOk), projectType |-> Undef,
   message |-> Str(MessageOk), company |-> Undef]

\* the bodies of the concurrent runs: valid, bot, invalid, absent
ConcBodies ==
  { ValidBody,
    [ValidBody EXCEPT !.company = Str(<<"b","o","t">>)],
    [ValidBody EXCEPT !.firstName = Undef],
    EmptyBody("absent") }

\* ----------------------------------------------------------------- state
VARIABLES
  body,         \* req.body of each request
  pc,           \* where each request's handler stands
  errors,       \* the handler's `errors`
  transporter,  \* the transporter of each slot: "none", "smtp" or "stream"
  verifyOut,    \* outcome of the request's transporter.verify()
  sendOut,      \* outcome of the request's transporter.sendMail()
  sentVia,      \* kind of the transporter sendMail was called on
  mail,         \* the message given to sendMail
  responses,    \* the replies sent for the request, in order
  trace         \* the calls the request made, in order

vars == <<body, pc, errors, transporter, verifyOut, sendOut, sentVia, mail,
          responses, trace>>

Reqs == DOMAIN pc

InitWith(bodies) ==
  /\ body = bodies
  /\ pc = [r \in DOMAIN bodies |-> "RECEIVED"]
  /\ errors = [r \in DOMAIN bodies |-> <<>>]
  /\ transporter = [r \in DOMAIN bodies |-> "none"]
  /\ verifyOut = [r \in DOMAIN bodies |-> "none"]
  /\ sendOut = [r \in DOMAIN bodies |-> "none"]
  /\ sentVia = [r \in DOMAIN bodies |-> "none"]
  /\ mail = [r \in DOMAIN bodies |-> NoMail]
  /\ responses = [r \in DOMAIN bodies |-> <<>>]
  /\ trace = [r \in DOMAIN bodies |-> <<>>]

\* one request, every body
Init ==
  \/ \E fn \in RequiredVals(FirstNameOk), ln \in RequiredVals(LastNameOk),
        em \in RequiredVals(EmailOk), ph \in RequiredVals(PhoneOk),
        pt \in ProjectTypeVals, ms \in RequiredVals(MessageOk), co \in CompanyVals :
       InitWith(<<[shape |-> "object", firstName |-> fn, lastName |-> ln,
                   email |-> em, phone |-> ph, projectType |-> pt,
                   message |-> ms, company |-> co]>>)
  \/ \E shape \in {"absent", "array"} : InitWith(<<EmptyBody(shape)>>)

\* several requests in flight at once
InitConc == \E bodies \in [1..NumReq -> ConcBodies] : InitWith(bodies)

\* --------------------------------------------------------------- handler
\* req.body.company on an undefined req.body throws before the try block
ThrowOnAbsentBody(r) ==
  /\ pc[r] = "RECEIVED"
  /\ body[r].shape = "absent"
  /\ \E out \in EscapedThrowReplies : responses' = [responses EXCEPT ![r] = out]
  /\ pc' = [pc EXCEPT ![r] = "THREW"]
  /\ trace' = [trace EXCEPT ![r] = <<"honeypot">>]
  /\ UNCHANGED <<body, errors, transporter, verifyOut, sendOut, sentVia, mail>>

\* the honeypot field is filled in: acknowledge and stop
Acknowledge(r) ==
  /\ pc[r] = "RECEIVED"
  /\ body[r].shape # "absent"
  /\ honeypot(body[r])
  /\ responses' = [responses EXCEPT ![r] = Append(@, RespAck)]
  /\ pc' = [pc EXCEPT ![r] = "ACKNOWLEDGED"]
  /\ trace' = [trace EXCEPT ![r] = <<"honeypot", "respond">>]
  /\ UNCHANGED <<body, errors, transporter, verifyOut, sendOut, sentVia, mail>>

\* validation fails: reply 400
Reject(r) ==
  /\ pc[r] = "RECEIVED"
  /\ body[r].shape # "absent"
  /\ ~honeypot(body[r])
  /\ LET errs == validatePayload(Destructure(body[r])) IN
       /\ IsRejected(errs)
       /\ errors' = [errors EXCEPT ![r] = errs]
       /\ responses' = [responses EXCEPT ![r] = Append(@, RespReject(errs))]
  /\ pc' = [pc EXCEPT ![r] = "REJECTED"]
  /\ trace' = [trace EXCEPT ![r] = <<"honeypot", "validatePayload", "respond">>]
  /\ UNCHANGED <<body, transporter, verifyOut, sendOut, sentVia, mail>>

\* validation passes: getTransporter creates the SMTP transport and awaits
\* its verify()
StartDispatch(r) ==
  /\ pc[r] = "RECEIVED"
  /\ body[r].shape # "absent"
  /\ ~honeypot(body[r])
  /\ LET errs == validatePayload(Destructure(body[r])) IN
       /\ ~IsRejected(errs)
       /\ errors' = [errors EXCEPT ![r] = errs]
  /\ transporter' = [transporter EXCEPT ![TransportSlot(r)] = "smtp"]
  /\ pc' = [pc EXCEPT ![r] = "VERIFYING"]
  /\ trace' = [trace EXCEPT ![r] =
                 <<"honeypot", "validatePayload", "createTransport", "verify">>]
  /\ UNCHANGED <<body, verifyOut, sendOut, sentVia, mail, responses>>

\* verify() settles; getTransporter returns (or throws into the handler's
\* catch block); the handler composes the message and awaits sendMail
VerifySettles(r, ok) ==
  /\ pc[r] = "VERIFYING"
  /\ verifyOut' = [verifyOut EXCEPT ![r] = IF ok THEN "ok" ELSE "fail"]
  /\ LET res == getTransporterResult(ok)
         slot == TransportSlot(r)
         mine == IF ok THEN transporter[slot] ELSE res.kind
     IN
       IF res.threw
       THEN /\ responses' = [responses EXCEPT ![r] = Append(@, RespFail)]
            /\ pc' = [pc EXCEPT ![r] = "FAILED"]
            /\ trace' = [trace EXCEPT ![r] = @ \o <<"respond">>]
            /\ UNCHANGED <<transporter, sentVia, mail>>
       ELSE /\ transporter' = [transporter EXCEPT ![slot] = mine]
            /\ sentVia' = [sentVia EXCEPT ![r] = mine]
            /\ mail' = [mail EXCEPT ![r] = ComposeMail(Destructure(body[r]))]
            /\ pc' = [pc EXCEPT ![r] = "SENDING"]
            /\ trace' = [trace EXCEPT ![r] =
                 @ \o (IF ok THEN <<>> ELSE <<"createStreamTransport">>)
                   \o <<"getTransporter:return", "sendMail">>]
            /\ UNCHANGED responses
  /\ UNCHANGED <<body, errors, sendOut>>

VerifyOk(r) == VerifySettles(r, TRUE)

VerifyFail(r) == VerifySettles(r, FALSE)

\* sendMail settles: reply 200, or 500 from the catch block
SendSettles(r, ok) ==
  /\ pc[r] = "SENDING"
  /\ ok \/ SendMayFail(sentVia[r])
  /\ sendOut' = [sendOut EXCEPT ![r] = IF ok THEN "ok" ELSE "fail"]
  /\ responses' = [responses EXCEPT ![r] = Append(@, AfterSend(ok).reply)]
  /\ pc' = [pc EXCEPT ![r] = AfterSend(ok).pc]
  /\ trace' = [trace EXCEPT ![r] = @ \o <<"respond">>]
  /\ UNCHANGED <<body, errors, transporter, verifyOut, sentVia, mail>>

SendOk(r) == SendSettles(r, TRUE)

SendFail(r) == SendSettles(r, FALSE)

Next ==
  \E r \in Reqs :
    \/ ThrowOnAbsentBody(r)
    \/ Acknowledge(r)
    \/ Reject(r)
    \/ StartDispatch(r)
    \/ VerifyOk(r)
    \/ VerifyFail(r)
    \/ SendOk(r)
    \/ SendFail(r)

Spec == Init /\ [][Next]_vars

SpecConc == InitConc /\ [][Next]_vars

\* ======================================================================
\* Properties
\* ======================================================================
Range(seq) == { seq[i] : i \in 1..Len(seq) }

Count(seq, x) == Cardinality({ i \in 1..Len(seq) : seq[i] = x })

Terminal(r) == pc[r] \in {"ACKNOWLEDGED", "REJECTED", "DISPATCHED", "FAILED", "THREW"}

\* the request got as far as calling validatePayload
Validated(r) == pc[r] \in {"REJECTED", "VERIFYING", "SENDING", "DISPATCHED", "FAILED"}

\* the request got as far as calling sendMail
Sent(r) == pc[r] \in {"SENDING", "DISPATCHED", "FAILED"}

\* a required field that is missing, not a string, or made of blanks only
FieldBad(v) == v.t # "string" \/ \A i \in 1..Len(v.s) : v.s[i] \in WhiteSpace

RequiredFields == {"firstName", "lastName", "email", "phone", "message"}

ErrorOf(f) ==
  CASE f = "firstName" -> ErrFirstName
    [] f = "lastName" -> ErrLastName
    [] f = "email" -> ErrEmail
    [] f = "phone" -> ErrPhone
    [] f = "message" -> ErrMessage

BadFields(b) == { f \in RequiredFields : FieldBad(b[f]) }

\* the company field holds a string with something other than blanks in it
CompanyFilled(b) ==
  b.company.t = "string" /\ \E i \in 1..Len(b.company.s) : b.company.s[i] \notin WhiteSpace

MailCalls == {"createTransport", "verify", "createStreamTransport", "sendMail"}

NoMailCalls(r) == Range(trace[r]) \cap MailCalls = {}

\* ------------------------------------------------------------------- C1
\* C1 as stated, for the requests that have a body: a finished request with
\* a missing, non-string or blank required field was answered 400 with an
\* error list holding the message of each such field.
C1_Original ==
  \A r \in Reqs :
    (Terminal(r) /\ body[r].shape # "absent" /\ BadFields(body[r]) # {}) =>
      /\ Len(responses[r]) = 1
      /\ responses[r][1].status = 400
      /\ \A f \in BadFields(body[r]) : ErrorOf(f) \in Range(responses[r][1].errors)

\* C1 amended: for a request that got past the honeypot check (a body is
\* present and company is absent, not a string, or blank after trimming)
\* with a missing, non-string or blank required field, validatePayload
\* returned a non-empty list holding the message of each such field and the
\* one reply is a 400.
C1_RequiredFieldsRejected ==
  \A r \in Reqs :
    (pc[r] # "RECEIVED" /\ body[r].shape # "absent" /\ ~CompanyFilled(body[r])
       /\ BadFields(body[r]) # {}) =>
      /\ pc[r] = "REJECTED"
      /\ errors[r] # <<>>
      /\ \A f \in BadFields(body[r]) : ErrorOf(f) \in Range(errors[r])
      /\ Len(responses[r]) = 1
      /\ responses[r][1].status = 400

\* a request rejected for a blank first name and a non-string email
C1_Witness ==
  \E r \in Reqs :
    /\ pc[r] = "REJECTED"
    /\ body[r].firstName = Str(<<" ">>)
    /\ body[r].email = Num(7)
    /\ body[r].lastName = Str(LastNameOk)
    /\ responses[r][1].status = 400

\* ------------------------------------------------------------------- C2
\* C2 as stated: a request whose company is a non-empty string is answered
\* 200 ok and makes no transport or send call.
C2_Original ==
  \A r \in Reqs :
    (body[r].company.t = "string" /\ Len(body[r].company.s) > 0) =>
      /\ NoMailCalls(r)
      /\ pc[r] # "RECEIVED" =>
           /\ Len(responses[r]) = 1
           /\ responses[r][1].status = 200
           /\ responses[r][1].ok = "true"

\* C2 amended: a request whose company is a string that is non-empty after
\* trimming is answered 200 ok with the acknowledgment and never makes a
\* transport or send call, whatever its other fields.
C2_HoneypotAcknowledged ==
  \A r \in Reqs :
    CompanyFilled(body[r]) =>
      /\ NoMailCalls(r)
      /\ pc[r] \in {"RECEIVED", "ACKNOWLEDGED"}
      /\ pc[r] = "ACKNOWLEDGED" =>
           /\ Len(responses[r]) = 1
           /\ responses[r][1].status = 200
           /\ responses[r][1].ok = "true"
           /\ responses[r][1].message = MsgAck

\* a bot request with an invalid field, acknowledged
C2_Witness ==
  \E r \in Reqs :
    /\ pc[r] = "ACKNOWLEDGED"
    /\ body[r].company = Str(<<"b","o","t">>)
    /\ body[r].firstName = Undef
    /\ responses[r] = <<RespAck>>

\* ------------------------------------------------------------------- C3
ClaimedTypes ==
  { <<"l","a","n","d","i","n","g">>, <<"w","e","b","s","i","t","e">>,
    <<"e","c","o","m","m","e","r","c","e">>, <<"i","n","f","o","-","a","p","p">>,
    <<"b","o","o","k","i","n","g","-","a","p","p">>, <<"c","u","s","t","o","m">> }

\* projectType is absent (undefined or null), the empty string, or one of
\* the six categories
TypeAbsentEmptyOrListed(v) ==
  \/ v.t \in {"undefined", "null"}
  \/ v.t = "string" /\ (v.s = <<>> \/ v.s \in ClaimedTypes)

\* as above, or one of the falsy values false and 0
TypeFalsyOrListed(v) == TypeAbsentEmptyOrListed(v) \/ v \in {Bool(FALSE), Num(0)}

FiveValid(b) == BadFields(b) = {}

\* C3 as stated: with the five required fields valid, validatePayload
\* returns the empty list when projectType is absent, empty or one of the
\* six categories, and a list with the project-type error for every other
\* value.
C3_Original ==
  \A r \in Reqs :
    (Validated(r) /\ FiveValid(body[r])) =>
      IF TypeAbsentEmptyOrListed(body[r].projectType)
      THEN errors[r] = <<>>
      ELSE ErrProjectType \in Range(errors[r])

\* C3 amended: with the five required fields valid, validatePayload returns
\* the empty list when projectType is absent, null, false, 0, the empty
\* string or one of the six categories, and a list with the project-type
\* error for every other value.
C3_ProjectTypeRule ==
  \A r \in Reqs :
    (Validated(r) /\ FiveValid(body[r])) =>
      IF TypeFalsyOrListed(body[r].projectType)
      THEN errors[r] = <<>>
      ELSE ErrProjectType \in Range(errors[r])

\* a valid request of category custom went through validation
C3_Witness ==
  \E r \in Reqs :
    /\ pc[r] = "VERIFYING"
    /\ FiveValid(body[r])
    /\ body[r].projectType = Str(<<"c","u","s","t","o","m">>)
    /\ errors[r] = <<>>

\* ------------------------------------------------------------------- C4
\* C4: when verify fails for a valid, non-honeypot request, getTransporter
\* does not throw but returns the stream transport, sendMail is called on
\* that transport, and the one reply is 200 with ok true.
C4_VerifyFailureFallsBack ==
  \A r \in Reqs :
    verifyOut[r] = "fail" =>
      /\ pc[r] \in {"SENDING", "DISPATCHED"}
      /\ Count(trace[r], "createStreamTransport") = 1
      /\ Count(trace[r], "getTransporter:return") = 1
      /\ Count(trace[r], "sendMail") = 1
      /\ sentVia[r] = "stream"
      /\ pc[r] = "SENDING" => responses[r] = <<>>
      /\ pc[r] = "DISPATCHED" =>
           /\ Len(responses[r]) = 1
           /\ responses[r][1].status = 200
           /\ responses[r][1].ok = "true"

\* a request answered 200 after its verify failed
C4_Witness ==
  \E r \in Reqs :
    /\ pc[r] = "DISPATCHED"
    /\ verifyOut[r] = "fail"
    /\ sentVia[r] = "stream"
    /\ responses[r] = <<RespOk>>

\* ------------------------------------------------------------------- C5
\* C5: when verify succeeds and sendMail then fails, the request is FAILED:
\* the one reply is 500, ok false, with the fixed message and nothing else;
\* sendMail was called once, on the SMTP transport, and no stream transport
\* was created.
C5_SendFailureIsFinal ==
  \A r \in Reqs :
    (verifyOut[r] = "ok" /\ sendOut[r] = "fail") =>
      /\ pc[r] = "FAILED"
      /\ Len(responses[r]) = 1
      /\ responses[r][1].status = 500
      /\ responses[r][1].ok = "false"
      /\ responses[r][1].message = MsgFail
      /\ responses[r][1].errors = <<>>
      /\ Count(trace[r], "sendMail") = 1
      /\ Count(trace[r], "createStreamTransport") = 0
      /\ sentVia[r] = "smtp"

\* a request whose send failed after a successful verify
C5_Witness ==
  \E r \in Reqs :
    /\ pc[r] = "FAILED"
    /\ verifyOut[r] = "ok"
    /\ sendOut[r] = "fail"

\* ------------------------------------------------------------------- C6
RuleOrder ==
  <<ErrFirstName, ErrLastName, ErrEmail, ErrPhone, ErrMessage, ErrProjectType>>

RuleIndex(msg) == CHOOSE i \in 1..Len(RuleOrder) : RuleOrder[i] = msg

\* the rule of a message applies to the body
RuleApplies(i, b) ==
  CASE i = 1 -> FieldBad(b.firstName)
    [] i = 2 -> FieldBad(b.lastName)
    [] i = 3 -> FieldBad(b.email)
    [] i = 4 -> FieldBad(b.phone)
    [] i = 5 -> FieldBad(b.message)
    [] i = 6 -> ~TypeFalsyOrListed(b.projectType)

\* C6: the list validatePayload returned holds the message of every rule
\* that applies and of no other, in rule order; the 400 reply carries the
\* whole list as errors and its first element as message.
C6_AllErrorsInOrder ==
  \A r \in Reqs :
    Validated(r) =>
      /\ \A i \in 1..Len(RuleOrder) :
           (RuleOrder[i] \in Range(errors[r])) <=> RuleApplies(i, body[r])
      /\ \A j, k \in 1..Len(errors[r]) :
           j < k => RuleIndex(errors[r][j]) < RuleIndex(errors[r][k])
      /\ pc[r] = "REJECTED" =>
           /\ Len(responses[r]) = 1
           /\ responses[r][1].status = 400
           /\ responses[r][1].errors = errors[r]
           /\ responses[r][1].message = errors[r][1]

\* a request that breaks all six rules
C6_Witness ==
  \E r \in Reqs :
    /\ pc[r] = "REJECTED"
    /\ errors[r] = RuleOrder
    /\ responses[r][1].message = ErrFirstName
    /\ responses[r][1].errors = RuleOrder

\* ------------------------------------------------------------------- C7
\* C7: every request ends in one of ACKNOWLEDGED, DISPATCHED, REJECTED and
\* FAILED, with exactly one reply, which is the one of that state; no
\* request ever has more than one reply.
C7_OneReplyPerRequest ==
  \A r \in Reqs :
    /\ Len(responses[r]) <= 1
    /\ Terminal(r) =>
         /\ Len(responses[r]) = 1
         /\ responses[r][1].json
         /\ \/ pc[r] \in {"ACKNOWLEDGED", "DISPATCHED"}
                /\ responses[r][1].status = 200 /\ responses[r][1].ok = "true"
            \/ pc[r] = "REJECTED"
                /\ responses[r][1].status = 400 /\ responses[r][1].ok = "false"
                /\ responses[r][1].errors # <<>>
            \/ pc[r] = "FAILED"
                /\ responses[r][1].status = 500 /\ responses[r][1].ok = "false"
                /\ responses[r][1].message = MsgFail

\* ------------------------------------------------------------------- C8
StepOrder ==
  <<"honeypot", "validatePayload", "createTransport", "verify",
    "createStreamTransport", "getTransporter:return", "sendMail", "respond">>

StepRank(step) == CHOOSE i \in 1..Len(StepOrder) : StepOrder[i] = step

\* C8: the calls of a request are made in the order honeypot check,
\* validation, transport creation, verify, send, reply; the transport is
\* created only after the honeypot check passed and validatePayload
\* returned the empty list, sendMail is called only after getTransporter
\* returned, and an acknowledged or rejected request makes no transport or
\* send call.
C8_StepOrder ==
  \A r \in Reqs :
    /\ \A i, j \in 1..Len(trace[r]) :
         i < j => StepRank(trace[r][i]) < StepRank(trace[r][j])
    /\ "validatePayload" \in Range(trace[r]) =>
         "honeypot" \in Range(trace[r]) /\ ~CompanyFilled(body[r])
    /\ "createTransport" \in Range(trace[r]) =>
         "validatePayload" \in Range(trace[r]) /\ errors[r] = <<>>
           /\ BadFields(body[r]) = {}
    /\ "sendMail" \in Range(trace[r]) =>
         {"createTransport", "verify", "getTransporter:return"} \subseteq Range(trace[r])
    /\ pc[r] \in {"ACKNOWLEDGED", "REJECTED"} => NoMailCalls(r)

\* a dispatched request that went through every step, fallback included
C8_Witness == \E r \in Reqs : pc[r] = "DISPATCHED" /\ trace[r] = StepOrder

\* ------------------------------------------------------------------- C9
\* what a request alone determines: its terminal state
ExpectedPc(b, v, sd) ==
  IF b.shape = "absent" THEN "THREW"
  ELSE IF CompanyFilled(b) THEN "ACKNOWLEDGED"
  ELSE IF BadFields(b) # {} \/ ~TypeFalsyOrListed(b.projectType) THEN "REJECTED"
  ELSE IF v = "fail" \/ sd = "ok" THEN "DISPATCHED"
  ELSE "FAILED"

\* the error messages of the rules the body breaks, in rule order
ExpectedErrors(b) ==
  SelectSeq(RuleOrder, LAMBDA msg : RuleApplies(RuleIndex(msg), b))

\* and the replies that state allows
ExpectedReplies(state, b) ==
  CASE state = "THREW" -> EscapedThrowReplies
    [] state = "ACKNOWLEDGED" -> {<<RespAck>>}
    [] state = "DISPATCHED" -> {<<RespOk>>}
    [] state = "FAILED" -> {<<RespFail>>}
    [] OTHER -> {<<RespReject(ExpectedErrors(b))>>}

\* everything a request's handler holds
Local(r) ==
  <<pc[r], errors[r], transporter[r], verifyOut[r], sendOut[r], sentVia[r],
    mail[r], responses[r], trace[r]>>

C9_OwnTransport ==
  \A r \in Reqs :
    /\ Count(trace[r], "createTransport") =
         (IF pc[r] \in {"VERIFYING", "SENDING", "DISPATCHED", "FAILED"} THEN 1 ELSE 0)
    /\ Count(trace[r], "verify") = Count(trace[r], "createTransport")
    /\ Count(trace[r], "createStreamTransport") = (IF verifyOut[r] = "fail" THEN 1 ELSE 0)
    /\ transporter[r] =
         (IF Count(trace[r], "createTransport") = 0 THEN "none"
          ELSE IF verifyOut[r] = "fail" THEN "stream" ELSE "smtp")
    /\ Sent(r) => sentVia[r] = transporter[r]
    /\ Terminal(r) =>
         /\ pc[r] = ExpectedPc(body[r], verifyOut[r], sendOut[r])
         /\ responses[r] \in ExpectedReplies(pc[r], body[r])

C9_OneRequestPerStep ==
  \A r, q \in Reqs : (r # q /\ Local(q)' # Local(q)) => Local(r)' = Local(r)

\* C9: under any interleaving each request creates and verifies its own
\* SMTP transport once (and its own stream transport when that verify
\* fails), sends on the transport it resolved, and ends in the state and
\* with the reply that its own body and its own verify and send outcomes
\* determine; a step of one request changes nothing of another.
C9_RequestsIndependent == []C9_OwnTransport /\ [][C9_OneRequestPerStep]_vars

\* one request failed in its send while another, whose verify failed, was
\* answered 200
C9_Witness ==
  \E r, q \in Reqs :
    /\ r # q
    /\ pc[r] = "FAILED" /\ verifyOut[r] = "ok" /\ sendOut[r] = "fail"
    /\ pc[q] = "DISPATCHED" /\ verifyOut[q] = "fail"
    /\ responses[r] = <<RespFail>> /\ responses[q] = <<RespOk>>

\* ------------------------------------------------------------------ C10
\* piece stands in text from position from on
Piece(text, from, piece) ==
  /\ from >= 1
  /\ from + Len(piece) - 1 <= Len(text)
  /\ SubSeq(text, from, from + Len(piece) - 1) = piece

\* text is made, in this order, of the name, email, phone and project-type
\* lines, the last showing typeText, and ends with the message
TextLayout(text, b, typeText) ==
  LET l1 == LabelName \o b.firstName.s \o <<" ">> \o b.lastName.s \o NL
      l2 == LabelEmail \o b.email.s \o NL
      l3 == LabelPhone \o b.phone.s \o NL
      l4 == LabelType \o typeText \o NL
      p2 == 1 + Len(l1)
      p3 == p2 + Len(l2)
      p4 == p3 + Len(l3)
      p5 == p4 + Len(l4)
      pm == Len(text) - Len(b.message.s) + 1
  IN  /\ Piece(text, 1, l1)
      /\ Piece(text, p2, l2)
      /\ Piece(text, p3, l3)
      /\ Piece(text, p4, l4)
      /\ pm >= p5
      /\ Piece(text, pm, b.message.s)

\* C10 as stated: the project-type line shows the placeholder when
\* projectType is absent or empty and the submitted value otherwise.
C10_Original ==
  \A r \in Reqs :
    Sent(r) =>
      /\ TextLayout(mail[r].text, body[r],
           IF body[r].projectType \in {Undef, Null, Str(<<>>)}
           THEN Dash ELSE TemplateStr(body[r].projectType))
      /\ mail[r].replyTo = body[r].email

\* C10 amended: the text given to sendMail is made, in this order, of the
\* name line (firstName, a space, lastName), the email line, the phone
\* line, the project-type line and, last, the message; the project-type
\* line shows the submitted category, or "-" when projectType is absent,
\* null, false, 0 or the empty string; replyTo is the submitted email.
C10_MailText ==
  \A r \in Reqs :
    Sent(r) =>
      /\ TextLayout(mail[r].text, body[r],
           IF body[r].projectType.t = "string" /\ body[r].projectType.s # <<>>
           THEN body[r].projectType.s ELSE Dash)
      /\ mail[r].replyTo = body[r].email

\* a mail without a project type was handed to sendMail
C10_Witness ==
  \E r \in Reqs :
    /\ pc[r] = "SENDING"
    /\ body[r].projectType = Undef
    /\ mail[r].replyTo = Str(EmailOk)
    /\ mail[r].text =
         <<"NAME", ":", " ", "S", "a", " ", "A", "l", "\n",
           "EMAIL", ":", " ", "s", "@", "x", "\n",
           "PHONE", ":", " ", "0", "5", "\n",
           "PROJECT-TYPE", ":", " ", "-", "\n",
           "-", "-", "-", "\n", "H", "\n", "i">>
====
